---- MODULE Spec2Model ----
(***************************************************************************)
(* Model of langchain_utils.py: the snippet window memory                  *)
(* (SnippetsBufferWindowMemory.load_memory_variables) and the conversation *)
(* turn that drives it.                                                    *)
(*                                                                         *)
(* Text is a sequence of tokens: one token per character of variable text, *)
(* one token per literal marker prefix of the source.  Two texts are the   *)
(* same string iff they are the same token sequence (the variable text of  *)
(* Docs never contains the character '<').                                 *)
(***************************************************************************)
EXTENDS Integers, Sequences, FiniteSets, TLC

\* ---------------------------------------------------------------- bounds
MaxK == 3          \* largest window size k tried
MaxCands == 2      \* longest retrieval result
MaxTurns == 4      \* turns per conversation

\* ------------------------------------------------------- program constants
\* a dialogue memory built one turn too small
KDialogueLess == 3 - 1

KDialogue == 3     \* ConversationBufferWindowMemory(k=3, ...)

\* ------------------------------------------------------------------- text
NL == "\n"

Digit(d) == CASE d = 0 -> "0" [] d = 1 -> "1" [] d = 2 -> "2" [] d = 3 -> "3"
              [] d = 4 -> "4" [] d = 5 -> "5" [] d = 6 -> "6" [] d = 7 -> "7"
              [] d = 8 -> "8" [] d = 9 -> "9"

RECURSIVE IntToStr(_)
\* f"{n}" for a non-negative integer n
IntToStr(n) == IF n < 10 THEN <<Digit(n)>>
               ELSE IntToStr(n \div 10) \o <<Digit(n % 10)>>

\* the documents the index can return (snippet.metadata + page_content)
Doc(title, source, page, content) ==
    [title |-> title, source |-> source, page |-> page, page_content |-> content]

LinkText == <<"[", "t", "]", "(", "a", ")">>

Docs == { Doc(<<"a">>, <<"a">>, 0, <<"x">>),
          Doc(<<"t">>, <<"a">>, 0, <<"x">>),
          Doc(LinkText, LinkText, 0, <<"x">>),
          Doc(<<"a">>, <<"a">>, 9, <<"x">>) }

DocA == Doc(<<"a">>, <<"a">>, 0, <<"x">>)
DocB == Doc(<<"t">>, <<"a">>, 0, <<"x">>)
DocC == Doc(<<"a">>, <<"a">>, 9, <<"x">>)

\* lines 40-44 without the test of line 41: always the link form
HeaderAlwaysLink(snippet) ==
    <<"[">> \o snippet.title \o <<"]", "(">> \o snippet.source \o <<")", NL>>

\* lines 40-44: the header line
Header(snippet) ==
    IF snippet.title = snippet.source
    THEN snippet.source \o <<NL>>
    ELSE <<"[">> \o snippet.title \o <<"]", "(">> \o snippet.source \o <<")", NL>>

\* lines 38-48: snippet_to_add
Format(snippet) ==
    LET page_number == snippet.page IN
    Header(snippet)
      \o <<"<START_SNIPPET_PAGE_">> \o IntToStr(page_number + 1) \o <<">", NL>>
      \o snippet.page_content \o <<NL>>
      \o <<"<END_SNIPPET_PAGE_">> \o IntToStr(page_number + 1) \o <<">", NL>>

\* ------------------------------------------------------------------ lists
Range(s) == { s[i] : i \in 1..Len(s) }

\* [x for x in reversed(s)]
Reversed(s) == [i \in 1..Len(s) |-> s[Len(s) + 1 - i]]

\* s[:n] with Python's slice semantics (a negative n counts from the end)
Prefix(s, n) ==
    LET stop == IF n >= 0 THEN (IF n < Len(s) THEN n ELSE Len(s))
                ELSE (IF Len(s) + n > 0 THEN Len(s) + n ELSE 0)
    IN  SubSeq(s, 1, stop)

RECURSIVE Join(_)
\* ''.join(blocks)
Join(blocks) == IF blocks = <<>> THEN <<>>
                ELSE Head(blocks) \o Join(Tail(blocks))

RECURSIVE SeqsUpTo(_, _)
SeqsUpTo(S, n) ==
    IF n = 0 THEN { <<>> }
    ELSE LET shorter == SeqsUpTo(S, n - 1)
         IN  shorter \cup { Append(s, x) : s \in shorter, x \in S }

\* what search_faiss_index may return
CandLists == SeqsUpTo(Docs, MaxCands)

\* what it returns to the two windows of two conversations
IsoLists == SeqsUpTo({DocA, DocB, DocC}, MaxCands)

\* what it returns to two overlapping updates of one window
RaceLists == SeqsUpTo({DocA, DocC}, MaxCands)

\* what it may return now: anything, unless this behaviour is one in which
\* the previous result comes back
SearchResults(again) == IF again = <<>> THEN CandLists ELSE { again[1] }

RECURSIVE AppendAlways(_, _)
\* the loop without the membership test of line 49
AppendAlways(mem, cands) ==
    IF cands = <<>> THEN mem
    ELSE AppendAlways([snippets |-> Append(mem.snippets, Format(Head(cands))),
                       pages |-> Append(mem.pages, Head(cands).page)],
                      Tail(cands))

\* s without its element at index i
RemoveAt(s, i) == SubSeq(s, 1, i - 1) \o SubSeq(s, i + 1, Len(s))

RECURSIVE AppendRefresh(_, _)
\* the loop moving an already held block to the end instead of skipping it
AppendRefresh(mem, cands) ==
    IF cands = <<>> THEN mem
    ELSE LET b == Format(Head(cands))
             at == { i \in 1..Len(mem.snippets) : mem.snippets[i] = b }
             rest == IF at = {} THEN mem
                     ELSE LET i == CHOOSE i \in at : TRUE IN
                          [snippets |-> RemoveAt(mem.snippets, i),
                           pages |-> RemoveAt(mem.pages, i)]
         IN  AppendRefresh([snippets |-> Append(rest.snippets, b),
                            pages |-> Append(rest.pages, Head(cands).page)],
                           Tail(cands))

RECURSIVE AppendNew(_, _)
\* lines 37-51: the loop over similar_snippets
AppendNew(mem, cands) ==
    IF cands = <<>> THEN mem
    ELSE LET snippet == Head(cands)
             snippet_to_add == Format(snippet)
             next == IF snippet_to_add \notin Range(mem.snippets)
                     THEN [snippets |-> Append(mem.snippets, snippet_to_add),
                           pages |-> Append(mem.pages, snippet.page)]
                     ELSE mem
         IN  AppendNew(next, Tail(cands))

\* lines 34-35 left out
KeepMem(mem) == mem

\* lines 34-35: reverse both lists
ReverseMem(mem) ==
    [snippets |-> Reversed(mem.snippets), pages |-> Reversed(mem.pages)]

\* lines 55-56 without the [:self.k]
ReverseOnly(mem, kk) ==
    [snippets |-> Reversed(mem.snippets), pages |-> Reversed(mem.pages)]

\* lines 55-56 pruning before reversing back (drops the newest)
PruneReverse(mem, kk) ==
    [snippets |-> Reversed(Prefix(mem.snippets, kk)),
     pages |-> Reversed(Prefix(mem.pages, kk))]

\* line 56 without the reversal of the pages
ReversePruneSnippetsOnly(mem, kk) ==
    [snippets |-> Prefix(Reversed(mem.snippets), kk),
     pages |-> Prefix(mem.pages, kk)]

\* lines 55-56 without the reversal
PruneOnly(mem, kk) ==
    [snippets |-> Prefix(mem.snippets, kk), pages |-> Prefix(mem.pages, kk)]

\* lines 55-56: reverse back and prune to k
ReversePrune(mem, kk) ==
    [snippets |-> Prefix(Reversed(mem.snippets), kk),
     pages |-> Prefix(Reversed(mem.pages), kk)]

\* lines 34-56: the new (snippets, pages) of the window
Merge(mem, cands, kk) == ReversePrune(AppendNew(ReverseMem(mem), cands), kk)

\* ------------------------------------------------------------------ state
VARIABLES
    k,                \* self.k of the snippet memory
    snippets,         \* self.snippets
    pages,            \* self.pages
    similar_snippets, \* the search result of the update that just returned
    prevSnippets,     \* self.snippets when that update started
    prevPages,        \* self.pages when that update started
    repeated,         \* that update got the same result as the one before it
    replay,           \* <<l>>: the next search returns l again; <<>>: anything
    to_return,        \* text returned by the last update
    pc,               \* position of the turn
    turnNo,           \* turns started
    dialogue,         \* turns saved in the dialogue memory
    dialogueBefore,   \* dialogue when the current turn started
    searchFailed,     \* the search of the current turn raised
    prompt,           \* slots of the prompt handed to the model
    modelCalls,       \* model invocations in the current turn
    events,           \* what happened in the current turn, in order
    result,           \* how the last turn ended
    heap,             \* two conversations: the list objects (snippets, pages)
    ref,              \* two conversations: the object each memory refers to
    actor,            \* two conversations: the memory updated last
    thr,              \* overlapping updates: position and locals of each
    raceStart,        \* overlapping updates: the window they started from
    overlapped        \* overlapping updates: one ran inside the other

vars == <<k, snippets, pages, similar_snippets, prevSnippets, prevPages,
          repeated, replay, to_return, pc, turnNo, dialogue, dialogueBefore,
          searchFailed, prompt, modelCalls, events, result, heap, ref, actor,
          thr, raceStart, overlapped>>

turnVars == <<similar_snippets, prevSnippets, prevPages, repeated, replay,
              to_return, pc, turnNo, dialogue, dialogueBefore, searchFailed,
              prompt, modelCalls, events, result>>

isoVars == <<heap, ref, actor>>

raceVars == <<thr, raceStart, overlapped>>

otherVars == <<isoVars, raceVars>>

windowVars == <<snippets, pages, similar_snippets, prevSnippets, prevPages,
                repeated, replay, to_return>>

EmptyMem == [snippets |-> <<>>, pages |-> <<>>]

Insts == {1, 2}

Threads == {1, 2}

\* lines 16, 18: nothing held
WindowEmpty ==
    /\ snippets = <<>>
    /\ pages = <<>>

\* no turn started yet
TurnIdle ==
    /\ similar_snippets = <<>>
    /\ prevSnippets = <<>>
    /\ prevPages = <<>>
    /\ repeated = FALSE
    /\ replay = <<>>
    /\ to_return = <<>>
    /\ pc = "idle"
    /\ turnNo = 0
    /\ dialogue = <<>>
    /\ dialogueBefore = <<>>
    /\ searchFailed = FALSE
    /\ prompt = [snippets |-> <<>>, history |-> <<>>, input |-> 0]
    /\ modelCalls = 0
    /\ events = <<>>
    /\ result = "none"

\* no second conversation
IsoIdle ==
    /\ heap = [o \in 0..2 |-> EmptyMem]
    /\ ref = [i \in Insts |-> i]
    /\ actor = 0

IdleThread == [pc |-> "start", cands |-> <<>>, rest |-> <<>>]

\* no overlapping updates
RaceIdle ==
    /\ thr = [t \in Threads |-> IdleThread]
    /\ raceStart = EmptyMem
    /\ overlapped = FALSE

Init ==
    /\ k \in 1..MaxK
    /\ WindowEmpty
    /\ TurnIdle
    /\ IsoIdle
    /\ RaceIdle

\* the caller starts a turn; the chain asks the memories for their variables
StartTurn ==
    /\ pc = "idle"
    /\ turnNo < MaxTurns
    /\ pc' = "retrieving"
    /\ turnNo' = turnNo + 1
    /\ modelCalls' = 0
    /\ result' = "none"
    /\ dialogueBefore' = dialogue
    /\ searchFailed' = FALSE
    /\ prompt' = [snippets |-> <<>>, history |-> <<>>, input |-> 0]
    /\ events' = <<"retrieval">>
    /\ UNCHANGED <<otherVars, k, windowVars, dialogue>>

\* the exception of the search swallowed: the update goes on with no results
SearchFailsFallback ==
    /\ pc = "retrieving"
    /\ searchFailed' = TRUE
    /\ similar_snippets' = <<>>
    /\ prevSnippets' = snippets
    /\ prevPages' = pages
    /\ repeated' = (replay # <<>>)
    /\ replay' = <<>>
    /\ pc' = "loaded"
    /\ events' = Append(events, "update")
    /\ UNCHANGED <<otherVars, k, snippets, pages, to_return, turnNo, dialogue,
                   dialogueBefore, prompt, modelCalls, result>>

\* the search called after lines 34-35: a failure leaves the lists reversed
SearchFailsAfterReverse ==
    /\ pc = "retrieving"
    /\ searchFailed' = TRUE
    /\ snippets' = Reversed(snippets)
    /\ pages' = Reversed(pages)
    /\ pc' = "idle"
    /\ result' = "retrieval_error"
    /\ UNCHANGED <<otherVars, k, similar_snippets, prevSnippets, prevPages, repeated,
                   replay, to_return, turnNo, dialogue, dialogueBefore, prompt,
                   modelCalls, events>>

\* lines 30-31: search_faiss_index raises; nothing was assigned yet, and the
\* exception leaves load_memory_variables and the turn
SearchFails ==
    /\ pc = "retrieving"
    /\ searchFailed' = TRUE
    /\ pc' = "idle"
    /\ result' = "retrieval_error"
    /\ UNCHANGED <<otherVars, k, windowVars, turnNo, dialogue, dialogueBefore, prompt,
                   modelCalls, events>>

\* the merge done on copies that are never stored in self
LoadMemoryVariablesNoStore(cands) ==
    LET new == Merge([snippets |-> snippets, pages |-> pages], cands, k) IN
    /\ pc = "retrieving"
    /\ similar_snippets' = cands
    /\ prevSnippets' = snippets
    /\ prevPages' = pages
    /\ to_return' = Join(new.snippets)
    /\ repeated' = (replay # <<>>)
    /\ replay' = <<>>
    /\ pc' = "loaded"
    /\ events' = Append(events, "update")
    /\ UNCHANGED <<otherVars, k, snippets, pages, turnNo, dialogue, dialogueBefore,
                   searchFailed, prompt, modelCalls, result>>

\* line 57 joining the snippets held before the merge
LoadMemoryVariablesStale(cands) ==
    LET new == Merge([snippets |-> snippets, pages |-> pages], cands, k) IN
    /\ pc = "retrieving"
    /\ similar_snippets' = cands
    /\ prevSnippets' = snippets
    /\ prevPages' = pages
    /\ snippets' = new.snippets
    /\ pages' = new.pages
    /\ to_return' = Join(snippets)
    /\ repeated' = (replay # <<>>)
    /\ replay' = <<>>
    /\ pc' = "loaded"
    /\ events' = Append(events, "update")
    /\ UNCHANGED <<otherVars, k, turnNo, dialogue, dialogueBefore, searchFailed, prompt,
                   modelCalls, result>>

\* lines 24-59: load_memory_variables with the search returning cands
LoadMemoryVariables(cands) ==
    LET new == Merge([snippets |-> snippets, pages |-> pages], cands, k) IN
    /\ pc = "retrieving"
    /\ similar_snippets' = cands
    /\ prevSnippets' = snippets
    /\ prevPages' = pages
    /\ snippets' = new.snippets
    /\ pages' = new.pages
    /\ to_return' = Join(new.snippets)
    /\ repeated' = (replay # <<>>)
    /\ replay' = <<>>
    /\ pc' = "loaded"
    /\ events' = Append(events, "update")
    /\ UNCHANGED <<otherVars, k, turnNo, dialogue, dialogueBefore, searchFailed, prompt,
                   modelCalls, result>>

\* the last kd turns, oldest first
HistoryK(turns, kd) ==
    IF Len(turns) <= kd THEN turns
    ELSE SubSeq(turns, Len(turns) - kd + 1, Len(turns))

\* the last KDialogue turns, oldest first
History(turns) == HistoryK(turns, KDialogue)

\* the chain fills the prompt and calls the model.  The locals of the update
\* are gone; replay' decides whether the next search gives the same result.
Predict ==
    /\ pc = "loaded"
    /\ similar_snippets' = <<>>
    /\ prevSnippets' = <<>>
    /\ prevPages' = <<>>
    /\ repeated' = FALSE
    /\ replay' \in {<<>>, <<similar_snippets>>}
    /\ prompt' = [snippets |-> to_return, history |-> History(dialogue),
                  input |-> turnNo]
    /\ modelCalls' = modelCalls + 1
    /\ events' = events \o <<"render", "invoke">>
    /\ pc' = "awaiting"
    /\ UNCHANGED <<otherVars, k, snippets, pages, to_return, turnNo, dialogue,
                   dialogueBefore, searchFailed, result>>

\* the model answers; the turn is saved in the dialogue memory
ModelReplies ==
    /\ pc = "awaiting"
    /\ dialogue' = Append(dialogue, [input |-> turnNo, output |-> "reply"])
    /\ result' = "reply"
    /\ events' = Append(events, "append")
    /\ pc' = "idle"
    /\ UNCHANGED <<otherVars, k, windowVars, turnNo, dialogueBefore, searchFailed, prompt,
                   modelCalls>>

\* the model call raises
ModelFails ==
    /\ pc = "awaiting"
    /\ result' = "model_error"
    /\ pc' = "idle"
    /\ UNCHANGED <<otherVars, k, windowVars, turnNo, dialogue, dialogueBefore,
                   searchFailed, prompt, modelCalls, events>>

Next ==
    \/ StartTurn
    \/ SearchFails
    \/ \E cands \in SearchResults(replay) : LoadMemoryVariables(cands)
    \/ Predict
    \/ ModelReplies
    \/ ModelFails

Spec == Init /\ [][Next]_vars

\* lines 20-22: __init__ takes whatever k it is given
InitAnyK ==
    /\ k \in (0 - 1)..MaxK
    /\ WindowEmpty
    /\ TurnIdle
    /\ IsoIdle
    /\ RaceIdle

\* the conversation of a window built with any integer k
SpecAnyK == InitAnyK /\ [][Next]_vars

\* ------------------------------------------------- two conversations
\* Object 0 holds the lists of the class attributes (lines 16, 18); object i
\* is the object memory i made for itself last.

\* the lists memory i sees as self.snippets, self.pages
View(st, i) == st.heap[st.ref[i]]

\* lines 50-51: self.pages.append, self.snippets.append change the object
AppendInPlace(st, i, val) ==
    [st EXCEPT !.heap[st.ref[i]] = val]

\* an assignment done as a change of the object self refers to
AssignInPlace(st, i, val) ==
    [st EXCEPT !.heap[st.ref[i]] = val]

\* lines 34-35, 55-56: self.snippets = [...] makes self refer to a new object
AssignAttr(st, i, val) ==
    [heap |-> [st.heap EXCEPT ![i] = val], ref |-> [st.ref EXCEPT ![i] = i]]

\* lines 15-22: memories whose lists are the class attributes themselves, or
\* copies of them
InitIso ==
    /\ k \in 1..MaxK
    /\ WindowEmpty
    /\ TurnIdle
    /\ RaceIdle
    /\ heap = [o \in 0..2 |-> EmptyMem]
    /\ ref \in { [i \in Insts |-> 0], [i \in Insts |-> i] }
    /\ actor = 0

\* lines 32-56 on memory i, the search returning cands
UpdateInst(i, cands) ==
    LET st0 == [heap |-> heap, ref |-> ref]
        st1 == AssignAttr(st0, i, ReverseMem(View(st0, i)))
        st2 == AppendInPlace(st1, i, AppendNew(View(st1, i), cands))
        st3 == AssignAttr(st2, i, ReversePrune(View(st2, i), k))
    IN  /\ heap' = st3.heap
        /\ ref' = st3.ref
        /\ actor' = i
        /\ UNCHANGED <<k, snippets, pages, turnVars, raceVars>>

NextIso == \E i \in Insts, cands \in IsoLists : UpdateInst(i, cands)

SpecIso == InitIso /\ [][NextIso]_vars

\* ------------------------------------------- overlapping updates
\* Two calls of load_memory_variables on the same memory, one statement of
\* lines 31-56 at a time.

Busy(t) == thr[t].pc \notin {"start", "done"}

\* thread t takes a step: its position and locals change, and it is noted
\* whether the other call is under way
Step(t, next) ==
    /\ thr' = [thr EXCEPT ![t] = next]
    /\ overlapped' = (overlapped \/ \E u \in Threads : u # t /\ Busy(u))
    /\ UNCHANGED <<k, turnVars, isoVars, raceStart>>

\* a window one update has filled, and two calls about to start
InitRace ==
    /\ k \in 1..MaxK
    /\ TurnIdle
    /\ IsoIdle
    /\ \E cands \in RaceLists :
         LET mem == Merge(EmptyMem, cands, k) IN
         /\ snippets = mem.snippets
         /\ pages = mem.pages
         /\ raceStart = mem
    /\ thr = [t \in Threads |-> IdleThread]
    /\ overlapped = FALSE

\* line 31
RaceSearch(t, cands) ==
    /\ thr[t].pc = "start"
    /\ Step(t, [pc |-> "l34", cands |-> cands, rest |-> cands])
    /\ UNCHANGED <<snippets, pages>>

\* line 34
RaceL34(t) ==
    /\ thr[t].pc = "l34"
    /\ snippets' = Reversed(snippets)
    /\ Step(t, [thr[t] EXCEPT !.pc = "l35"])
    /\ UNCHANGED pages

\* line 35
RaceL35(t) ==
    /\ thr[t].pc = "l35"
    /\ pages' = Reversed(pages)
    /\ Step(t, [thr[t] EXCEPT !.pc = "loop"])
    /\ UNCHANGED snippets

\* lines 37-49: the next snippet, its block, and the test of line 49
RaceLoop(t) ==
    /\ thr[t].pc = "loop"
    /\ Step(t, IF thr[t].rest = <<>> THEN [thr[t] EXCEPT !.pc = "l55"]
               ELSE IF Format(Head(thr[t].rest)) \notin Range(snippets)
                    THEN [thr[t] EXCEPT !.pc = "l50"]
                    ELSE [thr[t] EXCEPT !.rest = Tail(thr[t].rest)])
    /\ UNCHANGED <<snippets, pages>>

\* line 50
RaceL50(t) ==
    /\ thr[t].pc = "l50"
    /\ pages' = Append(pages, Head(thr[t].rest).page)
    /\ Step(t, [thr[t] EXCEPT !.pc = "l51"])
    /\ UNCHANGED snippets

\* line 51
RaceL51(t) ==
    /\ thr[t].pc = "l51"
    /\ snippets' = Append(snippets, Format(Head(thr[t].rest)))
    /\ Step(t, [thr[t] EXCEPT !.pc = "loop", !.rest = Tail(thr[t].rest)])
    /\ UNCHANGED pages

\* line 55
RaceL55(t) ==
    /\ thr[t].pc = "l55"
    /\ snippets' = Prefix(Reversed(snippets), k)
    /\ Step(t, [thr[t] EXCEPT !.pc = "l56"])
    /\ UNCHANGED pages

\* lines 56-59
RaceL56(t) ==
    /\ thr[t].pc = "l56"
    /\ pages' = Prefix(Reversed(pages), k)
    /\ Step(t, [thr[t] EXCEPT !.pc = "done"])
    /\ UNCHANGED snippets

NextRace ==
    \/ \E t \in Threads, cands \in RaceLists : RaceSearch(t, cands)
    \/ \E t \in Threads : RaceL34(t)
    \/ \E t \in Threads : RaceL35(t)
    \/ \E t \in Threads : RaceLoop(t)
    \/ \E t \in Threads : RaceL50(t)
    \/ \E t \in Threads : RaceL51(t)
    \/ \E t \in Threads : RaceL55(t)
    \/ \E t \in Threads : RaceL56(t)

SpecRace == InitRace /\ [][NextRace]_vars

TypeOK ==
    /\ k \in 1..MaxK
    /\ pc \in {"idle", "retrieving", "loaded", "awaiting"}
    /\ turnNo \in 0..MaxTurns
    /\ replay # <<>> => pc \in {"awaiting", "idle", "retrieving"}
    /\ Len(snippets) = Len(pages)

\* ----------------------------------------------------------- properties
Blocks(cands) == { Format(cands[i]) : i \in 1..Len(cands) }

RECURSIVE FirstNew(_, _)
\* the blocks of cands that are not in held, each once, in retrieval order
FirstNew(held, cands) ==
    IF cands = <<>> THEN <<>>
    ELSE LET b == Format(Head(cands)) IN
         IF b \in Range(held) THEN FirstNew(held, Tail(cands))
         ELSE <<b>> \o FirstNew(Append(held, b), Tail(cands))

\* the blocks the last update admitted
Admitted == FirstNew(prevSnippets, similar_snippets)

IndexIn(s, x) == CHOOSE i \in 1..Len(s) : s[i] = x

IsPrefixOf(s, t) == Len(s) <= Len(t) /\ SubSeq(t, 1, Len(s)) = s

\* C1: whatever the updates were, the window holds at most k snippets.
CapacityInvariant == Len(snippets) <= k

\* an update that had more blocks than the window takes and pruned them to k
CapacityWitness ==
    /\ pc = "loaded"
    /\ Len(prevSnippets) + Len(Admitted) > k
    /\ Len(snippets) = k

\* C2: no block is held twice, also when the retrieval result itself
\* contains a block more than once.
NoDuplicateInvariant ==
    \A i, j \in 1..Len(snippets) : i # j => snippets[i] # snippets[j]

\* an update whose result had the same new block twice (from two different
\* documents) and admitted it
NoDuplicateWitness ==
    /\ pc = "loaded"
    /\ \E i, j \in 1..Len(similar_snippets) :
         /\ i < j
         /\ similar_snippets[i] # similar_snippets[j]
         /\ Format(similar_snippets[i]) = Format(similar_snippets[j])
         /\ Format(similar_snippets[i]) \notin Range(prevSnippets)
         /\ Format(similar_snippets[i]) \in Range(snippets)

\* C3 as stated: after an update with at most k candidates, every held
\* snippet that was retrieved again is still held.
StillRelevantKept ==
    (pc = "loaded" /\ Len(similar_snippets) <= k) =>
        \A b \in Range(prevSnippets) \cap Blocks(similar_snippets) :
            b \in Range(snippets)

\* C3 amended: a snippet held at position i that is retrieved again is still
\* held after the update exactly when i plus the number of admitted blocks
\* is at most k.
StillRelevantKeptIffRoom ==
    pc = "loaded" =>
        \A i \in 1..Len(prevSnippets) :
            prevSnippets[i] \in Blocks(similar_snippets) =>
                (prevSnippets[i] \in Range(snippets) <=> i + Len(Admitted) <= k)

\* a retrieved-again snippet kept next to a newly admitted one
StillRelevantWitness ==
    /\ pc = "loaded"
    /\ Len(Admitted) >= 1
    /\ \E i \in 1..Len(prevSnippets) :
         /\ prevSnippets[i] \in Blocks(similar_snippets)
         /\ prevSnippets[i] \in Range(snippets)

\* C4: with k = 2, [A, B] into the empty window leaves [A, B], and [C] into
\* [A, B] leaves [C, A].
RecencyBiasScenario ==
    (pc = "loaded" /\ k = 2) =>
        /\ (prevSnippets = <<>> /\ similar_snippets = <<DocA, DocB>>)
             => snippets = <<Format(DocA), Format(DocB)>>
        /\ (prevSnippets = <<Format(DocA), Format(DocB)>>
              /\ similar_snippets = <<DocC>>)
             => snippets = <<Format(DocC), Format(DocA)>>

\* C5: after an update that admits something, the admitted blocks that are
\* held stand in retrieval order, and the first admitted block is the first
\* held block and the start of the returned text.
MostRelevantFirst ==
    (pc = "loaded" /\ Admitted # <<>>) =>
        /\ Len(snippets) >= 1
        /\ snippets[1] = Admitted[1]
        /\ IsPrefixOf(Admitted[1], to_return)
        /\ \A i, j \in 1..Len(snippets) :
             (i < j /\ snippets[i] \in Range(Admitted)
                    /\ snippets[j] \in Range(Admitted))
               => IndexIn(Admitted, snippets[i]) < IndexIn(Admitted, snippets[j])

\* C6 as stated: a second update with the same candidate list changes nothing.
DedupIdempotent ==
    (pc = "loaded" /\ repeated) =>
        (snippets = prevSnippets /\ pages = prevPages)

\* C6 amended: a second update with the same candidate list changes nothing
\* when every block of the list was held after the first update.
DedupIdempotentWhenAllHeld ==
    (pc = "loaded" /\ repeated
       /\ Blocks(similar_snippets) \subseteq Range(prevSnippets)) =>
        (snippets = prevSnippets /\ pages = prevPages)

\* the same non-empty list twice in a row, all of it held after the first
DedupIdempotentWitness ==
    /\ pc = "loaded"
    /\ repeated
    /\ Len(similar_snippets) >= 2
    /\ Len(prevSnippets) >= 2
    /\ snippets = prevSnippets
    /\ Blocks(similar_snippets) \subseteq Range(prevSnippets)

\* C7: a block that is already held is neither added again nor moved: the
\* held entries that survive keep their order and come after every admitted
\* entry; [A, B] with retrieval [B, C] and k = 2 gives [C, A].
NoPositionRefresh ==
    pc = "loaded" =>
        /\ \A b \in Range(prevSnippets) :
             Cardinality({ i \in 1..Len(snippets) : snippets[i] = b }) <= 1
        /\ \A i, j \in 1..Len(snippets) :
             (i < j /\ snippets[i] \in Range(prevSnippets)
                    /\ snippets[j] \in Range(prevSnippets))
               => IndexIn(prevSnippets, snippets[i])
                    < IndexIn(prevSnippets, snippets[j])
        /\ \A i, j \in 1..Len(snippets) :
             (snippets[i] \notin Range(prevSnippets)
                /\ snippets[j] \in Range(prevSnippets)) => i < j
        /\ (k = 2 /\ prevSnippets = <<Format(DocA), Format(DocB)>>
              /\ similar_snippets = <<DocB, DocC>>)
             => snippets = <<Format(DocC), Format(DocA)>>

\* the example: [A, B], retrieval [B, C], k = 2
NoPositionRefreshWitness ==
    /\ pc = "loaded"
    /\ k = 2
    /\ prevSnippets = <<Format(DocA), Format(DocB)>>
    /\ similar_snippets = <<DocB, DocC>>
    /\ snippets = <<Format(DocC), Format(DocA)>>

\* C8: pruning drops from the oldest end: an admitted entry is dropped only
\* if every previously held entry is dropped, and a previously held entry is
\* dropped only if every older one (later in the list) is dropped.
EvictionOrder ==
    pc = "loaded" =>
        /\ (\E b \in Range(Admitted) : b \notin Range(snippets))
             => Range(prevSnippets) \cap Range(snippets) = {}
        /\ \A i, j \in 1..Len(prevSnippets) :
             (i < j /\ prevSnippets[i] \notin Range(snippets))
               => prevSnippets[j] \notin Range(snippets)

\* an update that dropped the oldest held entry and kept a newer one
EvictionOrderWitness ==
    /\ pc = "loaded"
    /\ Len(prevSnippets) >= 2
    /\ prevSnippets[1] \in Range(snippets)
    /\ prevSnippets[Len(prevSnippets)] \notin Range(snippets)

\* C9: an update whose retrieval is empty leaves snippets and pages as they
\* were and returns their rendering.
EmptyRetrievalNoOp ==
    (pc = "loaded" /\ similar_snippets = <<>>) =>
        /\ snippets = prevSnippets
        /\ pages = prevPages
        /\ to_return = Join(prevSnippets)

\* an empty retrieval on a window that holds two snippets
EmptyRetrievalWitness ==
    /\ pc = "loaded"
    /\ similar_snippets = <<>>
    /\ Len(prevSnippets) >= 2
    /\ snippets = prevSnippets

\* C10: when the retrieval of a turn fails, the turn has ended with the
\* retrieval error, the model was not invoked in it, and the dialogue is as
\* it was before the turn.
RetrievalFailurePropagates ==
    searchFailed =>
        /\ pc = "idle"
        /\ result = "retrieval_error"
        /\ modelCalls = 0
        /\ dialogue = dialogueBefore

\* a failed retrieval in a conversation that already has a saved turn
RetrievalFailureWitness ==
    /\ searchFailed
    /\ result = "retrieval_error"
    /\ Len(dialogue) >= 1

\* C11: when the model call fails after the update of the same turn, the
\* window still holds what the update merged (the text the prompt was given
\* is its rendering), no turn was appended to the dialogue, and the error
\* reached the caller after exactly one model invocation.
ModelFailureAsymmetry ==
    result = "model_error" =>
        /\ pc = "idle"
        /\ modelCalls = 1
        /\ dialogue = dialogueBefore
        /\ Join(snippets) = prompt.snippets
        /\ to_return = prompt.snippets
        /\ Len(pages) = Len(snippets)

\* the model failed in the first turn, whose update filled the empty window,
\* and in a later turn of a conversation that has a saved turn
ModelFailureWitness ==
    /\ result = "model_error"
    /\ Len(snippets) >= 2
    /\ Len(dialogue) >= 1

\* C12: a window whose k is not positive is never updated and no turn on it
\* is answered: its construction ended in a configuration error.
NonPositiveKRejected ==
    k <= 0 => (pc \notin {"loaded", "awaiting"} /\ result # "reply")

RECURSIVE Split(_)
\* the pieces of text between its line breaks (text.split("\n"))
Split(text) ==
    LET breaks == { i \in 1..Len(text) : text[i] = NL } IN
    IF breaks = {} THEN <<text>>
    ELSE LET i == CHOOSE b \in breaks : \A c \in breaks : b <= c IN
         <<SubSeq(text, 1, i - 1)>> \o Split(SubSeq(text, i + 1, Len(text)))

StartTag(n) == <<"<START_SNIPPET_PAGE_">> \o IntToStr(n) \o <<">">>
EndTag(n) == <<"<END_SNIPPET_PAGE_">> \o IntToStr(n) \o <<">">>

ExpectedHeader(c) ==
    IF c.title = c.source THEN c.source
    ELSE <<"[">> \o c.title \o <<"]", "(">> \o c.source \o <<")">>

\* C16: the block of a candidate is, line by line, its header (the source
\* alone when title = source, else [title](source)), the start marker of
\* page + 1, the body and the end marker of page + 1; a result that is the
\* same candidate once or twice puts exactly that one block in an empty window.
FormatContract ==
    (pc = "loaded" /\ prevSnippets = <<>> /\ similar_snippets # <<>>
       /\ \A i \in 1..Len(similar_snippets) :
            similar_snippets[i] = similar_snippets[1]) =>
        LET c == similar_snippets[1] IN
        /\ Len(snippets) = 1
        /\ Split(snippets[1]) = << ExpectedHeader(c), StartTag(c.page + 1),
                                   c.page_content, EndTag(c.page + 1), <<>> >>
        /\ to_return = snippets[1]

\* the same candidate twice, with a title that differs from its source
FormatWitness ==
    /\ pc = "loaded"
    /\ prevSnippets = <<>>
    /\ similar_snippets = <<DocB, DocB>>
    /\ Len(snippets) = 1

RECURSIVE PushFrontNew(_, _)
\* push every candidate whose block is not in the deque onto its front
PushFrontNew(dq, cands) ==
    IF cands = <<>> THEN dq
    ELSE LET b == Format(Head(cands)) IN
         PushFrontNew(IF b \in Range(dq.snippets) THEN dq
                      ELSE [snippets |-> <<b>> \o dq.snippets,
                            pages |-> <<Head(cands).page>> \o dq.pages],
                      Tail(cands))

FirstK(s, n) == SubSeq(s, 1, IF Len(s) < n THEN Len(s) ELSE n)

DequeMerge(mem, cands, kk) ==
    LET dq == PushFrontNew(mem, cands) IN
    [snippets |-> FirstK(dq.snippets, kk), pages |-> FirstK(dq.pages, kk)]

\* C17: what an update leaves is what pushing every not yet present
\* candidate, in retrieval order, onto the front and keeping the first k
\* leaves.
DoubleReversalIsDeque ==
    pc = "loaded" =>
        [snippets |-> snippets, pages |-> pages]
          = DequeMerge([snippets |-> prevSnippets, pages |-> prevPages],
                       similar_snippets, k)

\* an update that admitted two blocks into a non-empty window and pruned
DoubleReversalWitness ==
    /\ pc = "loaded"
    /\ Len(Admitted) >= 2
    /\ prevSnippets # <<>>
    /\ Len(prevSnippets) + Len(Admitted) > k
    /\ snippets # prevSnippets

\* C18: the step in which the retrieval fails leaves snippets and pages
\* exactly as they were.
NoPartialStateOnFailure ==
    [][(~searchFailed /\ searchFailed') =>
         (snippets' = snippets /\ pages' = pages)]_vars

\* a retrieval that failed on a window holding two snippets on different pages
NoPartialStateWitness ==
    /\ searchFailed
    /\ pc = "idle"
    /\ Len(snippets) >= 2
    /\ pages[1] # pages[2]

\* C20: pages and snippets have the same length, and the block at index i
\* is the block of a document on page pages[i]: its markers carry
\* pages[i] + 1.
PageSnippetAlignment ==
    /\ Len(pages) = Len(snippets)
    /\ \A i \in 1..Len(snippets) :
         /\ i <= Len(pages)
         /\ LET ls == Split(snippets[i]) IN
            /\ Len(ls) = 5
            /\ ls[2] = StartTag(pages[i] + 1)
            /\ ls[4] = EndTag(pages[i] + 1)
         /\ \E d \in Docs : d.page = pages[i] /\ Format(d) = snippets[i]

\* an update that pruned a window holding blocks of different pages
PageAlignmentWitness ==
    /\ pc = "loaded"
    /\ Len(prevSnippets) + Len(Admitted) > k
    /\ Len(snippets) >= 2
    /\ \E i, j \in 1..Len(pages) : pages[i] # pages[j]

FullTurn == <<"retrieval", "update", "render", "invoke", "append">>

\* C13: the events of a turn happen in the order retrieval, update, prompt
\* rendering, model invocation, append, each at most once; a turn that ended
\* with a reply had all five, its prompt held the rendering of the updated
\* window and the history without the turn itself, and it is idle only after
\* the append.
TurnProtocolOrder ==
    /\ IsPrefixOf(events, FullTurn)
    /\ result = "reply" =>
        /\ pc = "idle"
        /\ events = FullTurn
        /\ modelCalls = 1
        /\ prompt.snippets = Join(snippets)
        /\ prompt.history = History(dialogueBefore)
        /\ \A i \in 1..Len(prompt.history) : prompt.history[i].input < turnNo
        /\ prompt.input = turnNo
        /\ dialogue = Append(dialogueBefore,
                             [input |-> turnNo, output |-> "reply"])

\* a later turn answered, after an update of a window that holds snippets
TurnProtocolWitness ==
    /\ result = "reply"
    /\ turnNo >= 2
    /\ Len(dialogueBefore) >= 1
    /\ Len(snippets) >= 2

Min(a, b) == IF a < b THEN a ELSE b

\* C14: for every window size kd the rendered history is the last
\* min(n, kd) of the n appended turns, oldest first, and no earlier turn;
\* with the window of 3 and 4 turns appended it is turns 2, 3, 4.
DialogueFIFO ==
    LET n == Len(dialogue) IN
    /\ \A kd \in 1..MaxTurns :
         LET h == HistoryK(dialogue, kd)
             m == Min(n, kd)
         IN  /\ Len(h) = m
             /\ \A i \in 1..m : i <= Len(h) /\ h[i] = dialogue[n - m + i]
             /\ \A i, j \in 1..Len(h) : i < j => h[i].input < h[j].input
             /\ \A t \in 1..(n - m) : dialogue[t] \notin Range(h)
    /\ [i \in 1..n |-> dialogue[i].input] = <<1, 2, 3, 4>> =>
         [i \in 1..Len(History(dialogue)) |-> History(dialogue)[i].input]
           = <<2, 3, 4>>

\* four turns appended
DialogueFIFOWitness ==
    /\ [i \in 1..Len(dialogue) |-> dialogue[i].input] = <<1, 2, 3, 4>>
    /\ Len(History(dialogue)) = 3
    /\ dialogue[1] \notin Range(History(dialogue))

Now == [heap |-> heap, ref |-> ref]

\* C15: an update of one memory leaves the lists the other memory sees as
\* they were, and never changes the lists of the class attributes.
ConversationIsolation ==
    [][/\ \A j \in Insts : j # actor' => View(Now, j)' = View(Now, j)
       /\ heap'[0] = EmptyMem]_vars

\* both memories were updated and hold different snippets
ConversationIsolationWitness ==
    /\ actor = 2
    /\ Len(View(Now, 1).snippets) >= 2
    /\ Len(View(Now, 2).snippets) >= 2
    /\ Range(View(Now, 1).snippets) # Range(View(Now, 2).snippets)

AllDone == \A t \in Threads : thr[t].pc = "done"

\* what the two updates leave when one runs after the other
SequentialOutcomes ==
    { Merge(Merge(raceStart, thr[1].cands, k), thr[2].cands, k),
      Merge(Merge(raceStart, thr[2].cands, k), thr[1].cands, k) }

HeldNow == [snippets |-> snippets, pages |-> pages]

HasDuplicate == \E i, j \in 1..Len(snippets) : i # j /\ snippets[i] = snippets[j]

Misaligned ==
    \/ Len(pages) # Len(snippets)
    \/ \E i \in 1..Len(snippets) :
         Split(snippets[i])[2] # StartTag(pages[i] + 1)

\* C19: two updates of one window that do not overlap leave what one of the
\* two sequential orders leaves; only overlapping updates leave anything
\* else (the witness: a duplicate block and misaligned pages).
OnlyOverlapBreaksAtomicity ==
    (AllDone /\ ~overlapped) => HeldNow \in SequentialOutcomes

\* both updates done, the window is what neither order leaves: it holds a
\* block twice and a page that is not the page of its block
NotAtomicWitness ==
    /\ AllDone
    /\ overlapped
    /\ HeldNow \notin SequentialOutcomes
    /\ HasDuplicate
    /\ Misaligned

====
